---- MODULE Spec2Model ----
(***************************************************************************)
(* Model of the XBIZocr repository: the Flask upload-and-OCR service       *)
(* (src/app.py) and the batch OCR script (src/main.py).                    *)
(*                                                                         *)
(* Text is modelled as a sequence of one-character strings, so that        *)
(* strip(), lower(), suffix extraction and joining are computed character  *)
(* by character.  A nested OCR result is a tagged record [k, v]:           *)
(*   k = "str"  : v is the character sequence of a Python str              *)
(*   k = "num"  : v is an integer (Python int / float)                     *)
(*   k = "seq"  : v is the sequence of the elements of a list or a tuple   *)
(*                (the code tests isinstance(obj, (list, tuple)) only)     *)
(*   k = "dict" : v is the sequence of the mapping's values in iteration   *)
(*                order (the code reads obj.values() only)                 *)
(***************************************************************************)
EXTENDS Integers, Sequences, FiniteSets, TLC

VARIABLES
  result, texts, fpc,            \* extract_texts_from_predict: input, output, position
  dir, req, resp,                \* output directory (name -> content), the request
                                 \* served last (route, 'file' part, filename), its answer
  tpc, treq, tres, tresp,        \* two concurrent upload requests
  folder, prev, outFile, bpc, bidx  \* batch script: listing, old file, file, position, index

vars == <<result, texts, fpc, dir, req, resp, tpc, treq, tres, tresp,
          folder, prev, outFile, bpc, bidx>>

flatVars  == <<result, texts, fpc>>
webVars   == <<dir, req, resp>>
concVars  == <<tpc, treq, tres, tresp>>
batchVars == <<folder, prev, outFile, bpc, bidx>>

(***************************************************************************)
(* Bounds of the model.                                                    *)
(***************************************************************************)
\* largest number of nodes (leaves, lists, mappings) of a nested input
MaxNodes == 4
\* largest number of entries of the batch script's input folder
MaxEntries == 2

(***************************************************************************)
(* Characters and str methods.                                             *)
(***************************************************************************)
Whitespace == {" ", "\n", "\t"}

Min(a, b) == IF a < b THEN a ELSE b

RECURSIVE LStrip(_)
LStrip(s) ==
  IF s # <<>> /\ Head(s) \in Whitespace THEN LStrip(Tail(s)) ELSE s

RECURSIVE RStrip(_)
RStrip(s) ==
  IF s # <<>> /\ s[Len(s)] \in Whitespace THEN RStrip(SubSeq(s, 1, Len(s) - 1)) ELSE s

\* a strip() that forgets the trailing side
StripLeftOnly(s) == LStrip(s)

\* str.strip()
Strip(s) == RStrip(LStrip(s))

(***************************************************************************)
(* Nested values.                                                          *)
(***************************************************************************)
Str(s)  == [k |-> "str", v |-> s]
Num(n)  == [k |-> "num", v |-> n]
List(s) == [k |-> "seq", v |-> s]
Dict(s) == [k |-> "dict", v |-> s]

IsStr(o)  == o.k = "str"
IsNum(o)  == o.k = "num"
IsList(o) == o.k = "seq"
IsDict(o) == o.k = "dict"

(***************************************************************************)
(* extract_texts_from_predict (src/app.py 35-111).  rec(obj) is the        *)
(* sequence of strings that the call rec(obj) appends to texts.            *)
(***************************************************************************)
\* `if s.strip(): texts.append(s.strip())`
AppendStripped(s) == IF Strip(s) # <<>> THEN <<Strip(s)>> ELSE <<>>

RECURSIVE rec(_)
RECURSIVE RecAll(_)
\* `for item in xs: rec(item)`
RecAll(xs) == IF xs = <<>> THEN <<>> ELSE rec(Head(xs)) \o RecAll(Tail(xs))

rec(obj) ==
  IF IsStr(obj) THEN AppendStripped(obj.v)
  ELSE IF IsNum(obj) THEN <<>>
  ELSE IF IsList(obj) THEN
    IF Len(obj.v) = 2 /\ IsStr(obj.v[1]) /\ IsNum(obj.v[2])
    THEN AppendStripped(obj.v[1].v)
    ELSE IF Len(obj.v) >= 2 /\ IsList(obj.v[2])
    THEN LET sec == obj.v[2].v
         IN  IF Len(sec) >= 1 /\ IsStr(sec[1])
             THEN AppendStripped(sec[1].v)
             ELSE RecAll(sec)
    ELSE RecAll(obj.v)
  ELSE IF IsDict(obj) THEN RecAll(obj.v)
  ELSE <<>>

\* `[t for t in texts if t]`
DropEmpty(ts) == SelectSeq(ts, LAMBDA t : t # <<>>)

extract_texts_from_predict(res) == DropEmpty(rec(res))

(***************************************************************************)
(* Inputs of the flattener: every nested value of at most MaxNodes nodes   *)
(* over a few leaves (a plain string, a string that needs trimming, a      *)
(* whitespace-only string, a number).                                      *)
(***************************************************************************)
LeafValues ==
  { Str(<<"a">>), Str(<<" ", "b", " ">>), Str(<<" ">>), Num(1) }

RECURSIVE TreesOf(_)
RECURSIVE ForestsOf(_)
TreesOf(n) ==
  (IF n = 1 THEN LeafValues ELSE {})
    \cup { List(f) : f \in ForestsOf(n - 1) }
    \cup { Dict(f) : f \in ForestsOf(n - 1) }

ForestsOf(m) ==
  IF m = 0 THEN { <<>> }
  ELSE UNION { { <<t>> \o f : t \in TreesOf(j), f \in ForestsOf(m - j) } : j \in 1..m }

NestedInputs == UNION { TreesOf(n) : n \in 1..MaxNodes }

(***************************************************************************)
(* Specification of the flattener alone.                                   *)
(***************************************************************************)
FlatIdle ==
  /\ result = Num(0)
  /\ texts = <<>>
  /\ fpc = "idle"

InitFlatten ==
  /\ result \in NestedInputs
  /\ texts = <<>>
  /\ fpc = "start"

Extract ==
  /\ fpc = "start"
  /\ texts' = extract_texts_from_predict(result)
  /\ fpc' = "done"
  /\ UNCHANGED result

(***************************************************************************)
(* File names (src/app.py 19, 31-33, 137, 205).                            *)
(***************************************************************************)
\* characters outside ASCII with no ASCII decomposition (a CJK character)
NonAscii == { "U+65E5" }

\* the characters [A-Za-z0-9_.-] that the names of the model use
FilenameChars ==
  { "a", "b", "c", "e", "f", "g", "i", "j", "m", "n", "p", "t", "x",
    "G", "J", "N", "P", "_", ".", "-" }

\* str.lower(), one character
LowerChar(c) ==
  CASE c = "E" -> "e"
    [] c = "G" -> "g"
    [] c = "J" -> "j"
    [] c = "N" -> "n"
    [] c = "P" -> "p"
    [] OTHER -> c

\* str.lower()
Lower(s) == [i \in 1..Len(s) |-> LowerChar(s[i])]

\* the last index of character c in s, 0 when there is none (str.rfind + 1)
RECURSIVE RFind(_, _)
RFind(s, c) ==
  IF s = <<>> THEN 0
  ELSE IF s[Len(s)] = c THEN Len(s)
  ELSE RFind(SubSeq(s, 1, Len(s) - 1), c)

\* PurePath.name: the final path component
PathName(s) == SubSeq(s, RFind(s, "/") + 1, Len(s))

\* PurePath.suffix: from the last dot of the name, unless the dot starts or ends it
Suffix(s) ==
  LET name == PathName(s)
      i == RFind(name, ".")
  IN  IF 1 < i /\ i < Len(name) THEN SubSeq(name, i, Len(name)) ELSE <<>>

\* PurePath.with_suffix(".txt")
WithSuffixTxt(s) ==
  SubSeq(s, 1, Len(s) - Len(Suffix(s))) \o <<".", "t", "x", "t">>

\* ALLOWED_EXTENSIONS (src/app.py 19)
ALLOWED_EXTENSIONS ==
  { <<".", "p", "n", "g">>, <<".", "j", "p", "g">>, <<".", "j", "p", "e", "g">>,
    <<".", "t", "i", "f", "f">>, <<".", "b", "m", "p">>, <<".", "g", "i", "f">> }

\* an extension test that forgets to lower-case
AllowedCaseSensitive(filename) == Suffix(filename) \in ALLOWED_EXTENSIONS

\* allowed_filename (src/app.py 31-33)
allowed_filename(filename) == Lower(Suffix(filename)) \in ALLOWED_EXTENSIONS

\* "_".join(s.split()): whitespace runs inside become one "_", those at the ends go
RECURSIVE JoinWords(_)
JoinWords(s) ==
  LET t == LStrip(s)
  IN  IF t = <<>> THEN <<>>
      ELSE IF Head(s) \in Whitespace
           THEN <<"_">> \o JoinWords(t)
           ELSE <<Head(s)>> \o JoinWords(Tail(s))

\* str.strip("._")
RECURSIVE StripDots(_)
StripDots(s) ==
  IF s # <<>> /\ Head(s) \in {".", "_"} THEN StripDots(Tail(s))
  ELSE IF s # <<>> /\ s[Len(s)] \in {".", "_"} THEN StripDots(SubSeq(s, 1, Len(s) - 1))
  ELSE s

\* werkzeug.utils.secure_filename as called at src/app.py 205 and 259: drop the
\* non-ASCII characters, turn path separators into spaces, join the words with
\* "_", drop every character outside [A-Za-z0-9_.-], strip dots and underscores
secure_filename(s) ==
  LET ascii == SelectSeq(s, LAMBDA c : c \notin NonAscii)
      nosep == [i \in 1..Len(ascii) |-> IF ascii[i] = "/" THEN " " ELSE ascii[i]]
      words == JoinWords(Strip(nosep))
      kept  == SelectSeq(words, LAMBDA c : c \in FilenameChars)
  IN  StripDots(kept)

(***************************************************************************)
(* The OCR engine (ocr.predict, src/app.py 131) is external: its answer is *)
(* a function of the image's content.  Four image contents stand for the   *)
(* cases of the code: a mapping holding two text lines, a result without   *)
(* text, an unreadable image on which predict raises, and a result of more *)
(* lines than the preview shows.                                           *)
(***************************************************************************)
\* `texts[:20]` (src/app.py 237)
PreviewLimit == 20

Images == 1..4

PredictRaises(img) == img = 3

LongLine(i) ==
  IF i > PreviewLimit THEN Str(<<"c">>)
  ELSE IF i % 2 = 1 THEN Str(<<"a">>) ELSE Str(<<"b", " ">>)

PredictOf(img) ==
  CASE img = 1 -> Dict(<<Str(<<" ">>), List(<<Str(<<"a">>), Str(<<" ", "b">>)>>)>>)
    [] img = 2 -> List(<<List(<<Num(1), Num(2)>>), Num(3)>>)
    [] img = 4 -> List([i \in 1..(PreviewLimit + 1) |-> LongLine(i)])
    [] OTHER -> Num(0)

(***************************************************************************)
(* The output directory IMAGES_DIR (src/app.py 15): a function from the    *)
(* names of its files to their contents.  A path IMAGES_DIR / name is      *)
(* identified with name.  A content is a tagged record [k, v]:             *)
(*   k = "image" : v is the image content uploaded                         *)
(*   k = "text"  : v is the character sequence written                     *)
(*   k = "debug" : v is the raw result dumped under the header             *)
(*                 "# No text extracted by parser. ..."                    *)
(***************************************************************************)
ImageFile(img) == [k |-> "image", v |-> img]
TextFile(cs)   == [k |-> "text", v |-> cs]
DebugFile(res) == [k |-> "debug", v |-> res]
NoFile         == [k |-> "none", v |-> 0]

EmptyDir == [n \in {} |-> NoFile]

\* Path.exists()
Exists(d, path) == path \in DOMAIN d

\* file.save(path) / Path.write_text: create or replace the file
WriteFile(d, path, content) ==
  [n \in (DOMAIN d) \cup {path} |-> IF n = path THEN content ELSE d[n]]

\* "\n".join(lines)
RECURSIVE Join(_)
Join(lines) ==
  IF lines = <<>> THEN <<>>
  ELSE IF Len(lines) = 1 THEN lines[1]
  ELSE lines[1] \o <<"\n">> \o Join(Tail(lines))

\* lines[:n]
Take(lines, n) == SubSeq(lines, 1, Min(n, Len(lines)))

\* a preview that is not cut
PreviewAll(ts) == Join(ts)

\* `"\n".join(texts[:20])` (src/app.py 237)
Preview(ts) == Join(Take(ts, PreviewLimit))

\* a debug dump written only as the empty file
OutContentNoDump(ts, res) == TextFile(Join(ts))

\* what ocr_image_to_txt writes to out_path (src/app.py 141-161)
OutContent(ts, res) ==
  IF ts = <<>> THEN DebugFile(res) ELSE TextFile(Join(ts))

(***************************************************************************)
(* HTTP answers.  ctype is "json" for a jsonify() body, "html" for the     *)
(* framework's own error page (abort(404), or an exception that leaves the *)
(* view function), "file" for send_from_directory.                         *)
(***************************************************************************)
NoResp ==
  [route |-> "none", status |-> 0, ctype |-> "none", error |-> "", image |-> <<>>,
   txt_file |-> <<>>, count |-> 0, preview |-> <<>>, warning |-> FALSE, sent |-> NoFile]

\* jsonify({"error": ...}), status
ErrorJson(route, status, err) ==
  [NoResp EXCEPT !.route = route, !.status = status, !.ctype = "json", !.error = err]

\* the framework's answer to abort(status) or to an uncaught exception
FrameworkError(route, status) ==
  [NoResp EXCEPT !.route = route, !.status = status, !.ctype = "html"]

\* the 201 answer of upload_file (src/app.py 229-247)
UploadAnswer(saved_path, out_path, ts) ==
  [NoResp EXCEPT !.route = "upload", !.status = 201, !.ctype = "json",
     !.image = saved_path, !.txt_file = out_path, !.count = Len(ts),
     !.preview = Preview(ts), !.warning = (ts = <<>>)]

(***************************************************************************)
(* ocr_image_to_txt (src/app.py 113-161) on directory d: whether it        *)
(* raised, the directory afterwards, the path written, the lines returned. *)
(***************************************************************************)
\* the writing half of ocr_image_to_txt (src/app.py 135-161), given the result
\* of predict and the lines extracted from it
WriteTexts(d, image_path, res, ts) ==
  [raised |-> FALSE,
   dir |-> WriteFile(d, WithSuffixTxt(image_path), OutContent(ts, res)),
   out_path |-> WithSuffixTxt(image_path),
   texts |-> ts]

\* the extracting half (src/app.py 133)
ExtractAndWrite(d, image_path, res) ==
  WriteTexts(d, image_path, res, extract_texts_from_predict(res))

ocr_image_to_txt(d, image_path) ==
  IF ~Exists(d, image_path) \/ PredictRaises(d[image_path].v)
  THEN [raised |-> TRUE, dir |-> d, out_path |-> <<>>, texts |-> <<>>]
  ELSE ExtractAndWrite(d, image_path, PredictOf(d[image_path].v))

(***************************************************************************)
(* upload_file (src/app.py 185-247) as one request served alone: the       *)
(* directory afterwards and the answer.  hasFile: the request has a 'file' *)
(* part; fname: the part's filename; img: the content uploaded; saveFails: *)
(* file.save raises (it is outside the try block, so the exception leaves  *)
(* the view function and the framework answers 500 with its own page).     *)
(***************************************************************************)
\* the end of upload_file (src/app.py 215-247), given what ocr_image_to_txt did
AfterOcr(filename, ocr) ==
  IF ocr.raised
  THEN [dir |-> ocr.dir, resp |-> ErrorJson("upload", 500, "ocr_failed")]
  ELSE [dir |-> ocr.dir, resp |-> UploadAnswer(filename, ocr.out_path, ocr.texts)]

upload_file(d, hasFile, fname, img, saveFails) ==
  IF ~hasFile
  THEN [dir |-> d, resp |-> ErrorJson("upload", 400, "no file part in request")]
  ELSE IF fname = <<>>
  THEN [dir |-> d, resp |-> ErrorJson("upload", 400, "no selected file")]
  ELSE LET filename == secure_filename(fname) IN
    IF ~allowed_filename(filename)
    THEN [dir |-> d, resp |-> ErrorJson("upload", 400, "file extension not allowed")]
    ELSE IF saveFails
    THEN [dir |-> d, resp |-> FrameworkError("upload", 500)]
    ELSE AfterOcr(filename,
                  ocr_image_to_txt(WriteFile(d, filename, ImageFile(img)), filename))

\* download (src/app.py 251-267): the answer.  IMAGES_DIR / "" is the directory
\* itself, for which send_from_directory answers 404 as well.
download(d, fname) ==
  LET safe == secure_filename(fname) IN
    IF ~Exists(d, safe)
    THEN FrameworkError("download", 404)
    ELSE [NoResp EXCEPT !.route = "download", !.status = 200, !.ctype = "file",
                        !.sent = d[safe]]

\* health (src/app.py 179-181)
health == [NoResp EXCEPT !.route = "health", !.status = 200, !.ctype = "json"]

(***************************************************************************)
(* Requests of the model.                                                  *)
(***************************************************************************)
UploadNames ==
  { <<"a", ".", "p", "n", "g">>,
    <<"a", ".", "J", "P", "G">>,
    <<"b", ".", "p", "n", "g">>,
    <<"a", ".", "t", "x", "t">>,
    <<"a", ".", "p", "!", "n", "g">>,
    <<"U+65E5", ".", "p", "n", "g">>,
    <<>> }

\* the upload requests: one without a 'file' part, every name with every image
\* content, and every name with a save that fails
UploadRequests ==
  { [hasFile |-> FALSE, fname |-> <<>>, img |-> 1, saveFails |-> FALSE] }
    \cup { [hasFile |-> TRUE, fname |-> f, img |-> i, saveFails |-> FALSE] :
              f \in UploadNames, i \in Images }
    \cup { [hasFile |-> TRUE, fname |-> f, img |-> 1, saveFails |-> TRUE] :
              f \in UploadNames }

DownloadNames ==
  { <<"a", ".", "t", "x", "t">>,
    <<"b", ".", "t", "x", "t">>,
    <<"c", ".", "t", "x", "t">>,
    <<"a", ".", "p", "n", "g">>,
    <<".", ".", "/", "a", ".", "t", "x", "t">>,
    <<"U+65E5">> }

(***************************************************************************)
(* The web service, one request at a time.                                 *)
(***************************************************************************)
\* flask.request as the view functions read it: the route, whether
\* request.files has a 'file' part, and the filename given
Request(route, hasFile, fname) == [route |-> route, hasFile |-> hasFile, fname |-> fname]

NoRequest == Request("none", FALSE, <<>>)

WebIdle ==
  /\ dir = EmptyDir
  /\ req = NoRequest
  /\ resp = NoResp

\* an upload as a request thread holds it: the sanitised filename, the content
NoUpload == [filename |-> <<>>, img |-> 0]

ConcIdle ==
  /\ tpc = <<"off", "off">>
  /\ treq = <<NoUpload, NoUpload>>
  /\ tres = <<NoFile, NoFile>>
  /\ tresp = <<NoResp, NoResp>>

BatchIdle ==
  /\ folder = <<>>
  /\ prev = <<>>
  /\ outFile = <<>>
  /\ bpc = "off"
  /\ bidx = 1

Init ==
  /\ WebIdle
  /\ FlatIdle
  /\ ConcIdle
  /\ BatchIdle

Upload ==
  \E rq \in UploadRequests :
    \E out \in {upload_file(dir, rq.hasFile, rq.fname, rq.img, rq.saveFails)} :
        /\ req' = Request("upload", rq.hasFile, rq.fname)
        /\ dir' = out.dir
        /\ resp' = out.resp
        /\ UNCHANGED <<flatVars, concVars, batchVars>>

Download ==
  \E fname \in DownloadNames :
    /\ req' = Request("download", FALSE, fname)
    /\ resp' = download(dir, fname)
    /\ UNCHANGED <<dir, flatVars, concVars, batchVars>>

Health ==
  /\ req' = Request("health", FALSE, <<>>)
  /\ resp' = health
  /\ UNCHANGED <<dir, flatVars, concVars, batchVars>>

Next ==
  \/ Upload
  \/ Download
  \/ Health

Spec == Init /\ [][Next]_vars

(***************************************************************************)
(* The flattener alone, on every nested input of the bound.                *)
(***************************************************************************)
InitFlat ==
  /\ InitFlatten
  /\ WebIdle
  /\ ConcIdle
  /\ BatchIdle

NextFlat ==
  /\ Extract
  /\ UNCHANGED <<webVars, concVars, batchVars>>

SpecFlat == InitFlat /\ [][NextFlat]_vars

(***************************************************************************)
(* Claims about extract_texts_from_predict, under SpecFlat.                *)
(***************************************************************************)
\* a string with no character, or with whitespace at one of its ends
Untrimmed(t) == t = <<>> \/ Head(t) \in Whitespace \/ t[Len(t)] \in Whitespace

\* C1: every element of the list returned by extract_texts_from_predict is a
\* non-empty string with no leading or trailing whitespace, whatever the
\* nested input.
C1_TextsTrimmedNonEmpty ==
  fpc = "done" => \A i \in 1..Len(texts) : ~Untrimmed(texts[i])

\* C1 witness: an input holding a whitespace-only string, a string to trim and
\* a number has been flattened to the one trimmed string.
C1_Witness ==
  /\ fpc = "done"
  /\ result = List(<<Str(<<" ">>), Str(<<" ", "b", " ">>), Num(1)>>)
  /\ texts = << <<"b">> >>

\* the depth-first, left-to-right sequence of the trimmed non-blank string
\* leaves of a nested value (list/tuple elements and mapping values)
RECURSIVE TextLeaves(_)
RECURSIVE TextLeavesAll(_)
TextLeavesAll(xs) ==
  IF xs = <<>> THEN <<>> ELSE TextLeaves(Head(xs)) \o TextLeavesAll(Tail(xs))

TextLeaves(obj) ==
  IF IsStr(obj) THEN (IF Strip(obj.v) # <<>> THEN <<Strip(obj.v)>> ELSE <<>>)
  ELSE IF IsList(obj) \/ IsDict(obj) THEN TextLeavesAll(obj.v)
  ELSE <<>>

\* C2: the returned list equals the depth-first, left-to-right sequence of the
\* trimmed non-blank string leaves of the input: no text leaf is skipped and
\* none is reordered.
C2_AllTextLeavesInOrder ==
  fpc = "done" => texts = TextLeaves(result)

(***************************************************************************)
(* The web service when every request is an upload answered 201.           *)
(***************************************************************************)
UploadOk ==
  /\ Upload
  /\ resp'.status = 201

SpecUploads == Init /\ [][UploadOk]_vars

(***************************************************************************)
(* Claims about the web service, one request at a time, under Spec.        *)
(***************************************************************************)
\* the request served last failed: its answer is no 2xx answer
Failed == resp.route # "none" /\ resp.status \notin {200, 201}

\* C3: every failing request is answered 400, 404 or 500 with a JSON body
\* carrying an error field; no failure leaves the handler otherwise.
C3_FailuresAreJsonErrors ==
  Failed => /\ resp.status \in {400, 404, 500}
            /\ resp.ctype = "json"
            /\ resp.error # ""

\* the extension of a name as uploaded, lower-cased, is an allowed one
RawExtensionAllowed(fname) == Lower(Suffix(fname)) \in ALLOWED_EXTENSIONS

\* the same of the name once sanitised by secure_filename
SanitisedExtensionAllowed(fname) ==
  Lower(Suffix(secure_filename(fname))) \in ALLOWED_EXTENSIONS

Answered201 == resp.route = "upload" /\ resp.status = 201

\* the lines the flattener extracts from the image saved under `name`
LinesOf(d, name) == extract_texts_from_predict(PredictOf(d[name].v))

\* `name` with its suffix replaced by .txt
TxtNameOf(name) ==
  SubSeq(name, 1, Len(name) - Len(Suffix(name))) \o <<".", "t", "x", "t">>

C6_DownloadOnlyGeneratedText ==
  resp.route = "download" =>
    IF ~Exists(dir, secure_filename(req.fname))
    THEN resp.status = 404
    ELSE resp.status = 200 /\ resp.sent.k \in {"text", "debug"}

\* C8: when predict does not raise and no line is extracted, the output file
\* holds the debug dump of the raw result, the upload is still answered 201
\* with count 0, an empty preview and the warning; the warning is present
\* exactly when no line was extracted.
C8_NoTextIsWarned201 ==
  /\ Answered201 =>
       /\ resp.warning <=> resp.count = 0
       /\ resp.warning <=> LinesOf(dir, resp.image) = <<>>
       /\ resp.warning =>
            /\ resp.preview = <<>>
            /\ Exists(dir, resp.txt_file)
            /\ dir[resp.txt_file] = DebugFile(PredictOf(dir[resp.image].v))
  /\ (resp.route = "upload" /\ resp.status = 500 /\ resp.ctype = "json") =>
       PredictRaises(dir[secure_filename(req.fname)].v)

\* C8 witness: an upload whose result holds no text was answered 201 with the
\* warning, and the debug dump is in the text file.
C8_Witness ==
  /\ Answered201
  /\ resp.warning
  /\ resp.count = 0
  /\ dir[resp.txt_file].k = "debug"

(***************************************************************************)
(* Claim about sequences of successful uploads, under SpecUploads.         *)
(***************************************************************************)
\* C10: for every uploaded image still in the directory, the .txt file of its
\* name holds the output of that image.
C10_TxtHoldsTextOfItsImage ==
  \A name \in DOMAIN dir :
    dir[name].k = "image" =>
      /\ Exists(dir, TxtNameOf(name))
      /\ dir[TxtNameOf(name)] =
           OutContent(LinesOf(dir, name), PredictOf(dir[name].v))

(***************************************************************************)
(* Two POST /upload requests on two request threads.  upload_file and      *)
(* ocr_image_to_txt take no lock, so their file operations interleave:     *)
(*   idle      -> validate (195-209) and file.save (211-213)   -> saved    *)
(*   saved     -> exists, ocr.predict on the saved path, extract (125-133) *)
(*                                              -> predicted, or 500       *)
(*   predicted -> out_path.write_text (135-161)                -> written  *)
(*   written   -> build the answer (229-247)                   -> done     *)
(* tres[t] is thread t's local `result`.                                   *)
(***************************************************************************)
Threads == {1, 2}

ConcNames ==
  { <<"a", ".", "p", "n", "g">>,
    <<"b", ".", "p", "n", "g">>,
    <<"a", ".", "t", "x", "t">> }

InitConc ==
  /\ dir = EmptyDir
  /\ req = NoRequest
  /\ resp = NoResp
  /\ tpc = <<"idle", "idle">>
  /\ treq = <<NoUpload, NoUpload>>
  /\ tres = <<NoFile, NoFile>>
  /\ tresp = <<NoResp, NoResp>>
  /\ FlatIdle
  /\ BatchIdle

\* thread t validates its upload and saves it
SaveStep(t) ==
  /\ tpc[t] = "idle"
  /\ \E fname \in ConcNames, img \in Images :
       LET filename == secure_filename(fname) IN
         IF ~allowed_filename(filename)
         THEN /\ tpc' = [tpc EXCEPT ![t] = "done"]
              /\ tresp' = [tresp EXCEPT
                             ![t] = ErrorJson("upload", 400, "file extension not allowed")]
              /\ UNCHANGED <<dir, treq>>
         ELSE /\ tpc' = [tpc EXCEPT ![t] = "saved"]
              /\ treq' = [treq EXCEPT ![t] = [filename |-> filename, img |-> img]]
              /\ dir' = WriteFile(dir, filename, ImageFile(img))
              /\ UNCHANGED tresp
  /\ UNCHANGED <<tres, req, resp, flatVars, batchVars>>

\* thread t runs predict on the file now at its saved path
PredictStep(t) ==
  /\ tpc[t] = "saved"
  /\ IF ~Exists(dir, treq[t].filename) \/ PredictRaises(dir[treq[t].filename].v)
     THEN /\ tpc' = [tpc EXCEPT ![t] = "done"]
          /\ tresp' = [tresp EXCEPT ![t] = ErrorJson("upload", 500, "ocr_failed")]
          /\ UNCHANGED tres
     ELSE /\ tpc' = [tpc EXCEPT ![t] = "predicted"]
          /\ tres' = [tres EXCEPT ![t] = PredictOf(dir[treq[t].filename].v)]
          /\ UNCHANGED tresp
  /\ UNCHANGED <<dir, treq, req, resp, flatVars, batchVars>>

\* thread t writes its text file
WriteStep(t) ==
  /\ tpc[t] = "predicted"
  /\ dir' = WriteTexts(dir, treq[t].filename, tres[t],
                       extract_texts_from_predict(tres[t])).dir
  /\ tpc' = [tpc EXCEPT ![t] = "written"]
  /\ UNCHANGED <<treq, tres, tresp, req, resp, flatVars, batchVars>>

\* thread t answers
AnswerStep(t) ==
  /\ tpc[t] = "written"
  /\ tresp' = [tresp EXCEPT
                 ![t] = UploadAnswer(treq[t].filename, WithSuffixTxt(treq[t].filename),
                                     extract_texts_from_predict(tres[t]))]
  /\ tpc' = [tpc EXCEPT ![t] = "done"]
  /\ UNCHANGED <<dir, treq, tres, req, resp, flatVars, batchVars>>

NextConc ==
  \E t \in Threads :
    \/ SaveStep(t)
    \/ PredictStep(t)
    \/ WriteStep(t)
    \/ AnswerStep(t)

SpecConc == InitConc /\ [][NextConc]_vars

\* C9: whatever the interleaving, a request's 201 answer reports the line
\* count and the preview of the image that this same request uploaded.
C9_AnswerIsOfOwnImage ==
  \A t \in Threads :
    (tpc[t] = "done" /\ tresp[t].status = 201) =>
      /\ ~PredictRaises(treq[t].img)
      /\ LET own == extract_texts_from_predict(PredictOf(treq[t].img))
         IN  /\ tresp[t].count = Len(own)
             /\ tresp[t].preview = Join(Take(own, PreviewLimit))

(***************************************************************************)
(* The batch script (src/main.py).  folder is os.listdir(folder_path): a   *)
(* sequence of entries [name, img], img = 0 for an entry that Image.open   *)
(* cannot read (it raises, and nothing catches it).  prev is the content   *)
(* of ocr_output.txt before the run, outFile its content now, as a         *)
(* sequence of characters and of the literal pieces of the header.         *)
(***************************************************************************)
BatchNames ==
  { <<"x", ".", "p", "n", "g">>,
    <<"y", ".", "J", "P", "E", "G">>,
    <<"n", ".", "t", "x", "t">>,
    <<".", "j", "p", "g">> }

BatchImages == 0..2

\* pytesseract.image_to_string (src/main.py 18), external: a function of the image
TextOfImage(img) == IF img = 1 THEN <<"h", "i", "\n">> ELSE <<>>

Entries == { [name |-> n, img |-> i] : n \in BatchNames, i \in BatchImages }

\* the listings of at most MaxEntries entries, no name twice
Listings ==
  { f \in UNION { [1..n -> Entries] : n \in 0..MaxEntries } :
      \A i, j \in DOMAIN f : i # j => f[i].name # f[j].name }

\* str.endswith(suffix)
EndsWith(s, suffix) ==
  /\ Len(s) >= Len(suffix)
  /\ SubSeq(s, Len(s) - Len(suffix) + 1, Len(s)) = suffix

\* `img_file.lower().endswith((".png", ".jpg", ".jpeg"))` (src/main.py 13)
IsImageName(name) ==
  \/ EndsWith(Lower(name), <<".", "p", "n", "g">>)
  \/ EndsWith(Lower(name), <<".", "j", "p", "g">>)
  \/ EndsWith(Lower(name), <<".", "j", "p", "e", "g">>)

\* open(output_file, "a"): the old content stays
OpenForAppend(content) == content

\* open(output_file, "w") (src/main.py 11): the file is emptied
OpenForWrite(content) == <<>>

\* the two f.write calls (src/main.py 21-22)
WriteSection(name, text) ==
  <<"--- Text from ">> \o name \o <<" ---", "\n">> \o text \o <<"\n", "\n">>

InitBatch ==
  /\ folder \in Listings
  /\ prev \in { <<>>, <<"o", "l", "d", "\n">> }
  /\ outFile = prev
  /\ bpc = "start"
  /\ bidx = 1
  /\ WebIdle
  /\ ConcIdle
  /\ FlatIdle

OpenOutput ==
  /\ bpc = "start"
  /\ outFile' = OpenForWrite(outFile)
  /\ bpc' = "loop"
  /\ UNCHANGED <<folder, prev, bidx, webVars, concVars, flatVars>>

\* one iteration of the for loop (src/main.py 12-22)
Iterate ==
  /\ bpc = "loop"
  /\ bidx <= Len(folder)
  /\ IF ~IsImageName(folder[bidx].name)
     THEN /\ bidx' = bidx + 1
          /\ UNCHANGED <<outFile, bpc>>
     ELSE IF folder[bidx].img = 0
     THEN /\ bpc' = "crashed"
          /\ UNCHANGED <<outFile, bidx>>
     ELSE /\ outFile' = outFile \o WriteSection(folder[bidx].name,
                                                TextOfImage(folder[bidx].img))
          /\ bidx' = bidx + 1
          /\ UNCHANGED bpc
  /\ UNCHANGED <<folder, prev, webVars, concVars, flatVars>>

\* the loop ends, the with block closes the file (src/main.py 24)
Finish ==
  /\ bpc = "loop"
  /\ bidx > Len(folder)
  /\ bpc' = "done"
  /\ UNCHANGED <<folder, prev, outFile, bidx, webVars, concVars, flatVars>>

NextBatch ==
  \/ OpenOutput
  \/ Iterate
  \/ Finish

SpecBatch == InitBatch /\ [][NextBatch]_vars

(***************************************************************************)
(* Claim about the batch script, under SpecBatch.                          *)
(***************************************************************************)
\* the last n characters of a name, lower-cased
LowerEnd(name, n) ==
  IF Len(name) < n THEN <<>> ELSE Lower(SubSeq(name, Len(name) - n + 1, Len(name)))

\* the lower-cased name ends in .png, .jpg or .jpeg
NamedAsImage(name) ==
  \/ LowerEnd(name, 4) \in { <<".", "p", "n", "g">>, <<".", "j", "p", "g">> }
  \/ LowerEnd(name, 5) = <<".", "j", "p", "e", "g">>

\* the sections of the entries named as images, in listing order
RECURSIVE SectionsOf(_)
SectionsOf(listing) ==
  IF listing = <<>> THEN <<>>
  ELSE (IF NamedAsImage(Head(listing).name)
        THEN <<"--- Text from ">> \o Head(listing).name \o <<" ---", "\n">>
               \o TextOfImage(Head(listing).img) \o <<"\n", "\n">>
        ELSE <<>>)
       \o SectionsOf(Tail(listing))

\* C7: a run that finishes without an exception leaves the output file
\* holding, in place of its previous content, one section (header, text,
\* blank line) per entry whose lower-cased name ends in .png, .jpg or .jpeg,
\* in listing order, and nothing for the other entries.
C7_OutputIsSectionsInOrder ==
  bpc = "done" => outFile = SectionsOf(folder)

\* C7 witness: a run over a skipped entry and an upper-case image name ended,
\* and replaced an old file by the one section.
C7_Witness ==
  /\ bpc = "done"
  /\ prev # <<>>
  /\ Len(folder) = 2
  /\ folder[1].name = <<"n", ".", "t", "x", "t">>
  /\ folder[2] = [name |-> <<"y", ".", "J", "P", "E", "G">>, img |-> 1]
  /\ outFile = <<"--- Text from ", "y", ".", "J", "P", "E", "G", " ---", "\n",
                 "h", "i", "\n", "\n", "\n">>

====
